---- MODULE Spec2Model ----
(***************************************************************************)
(* The word-game server of src/src/main.rs: one session of                *)
(* handle_connection talking to one client over a TCP stream, and the     *)
(* answer function correct_response on the canonical word table.          *)
(*                                                                         *)
(* Bytes are one-character strings and a message is a sequence of bytes,  *)
(* so prefix tests, joining and splitting on the space byte are computed  *)
(* on the bytes, the way the code computes them.                           *)
(***************************************************************************)
EXTENDS Integers, Sequences, FiniteSets, Bags, TLC

(***************************************************************************)
(* Bounds of the model.                                                    *)
(***************************************************************************)
\* Clock resolution: ticks per second (2 = half seconds, so 5.5 s exists).
TicksPerSec == 2
\* How many of its replies the client lets differ from the eight right answers.
MaxDeviations == 1
\* Number of leading answers in the client's short reply.
ShortLen == 1
\* 1-based position of the token the client replaces by `banana`.
SubstAt == 4
\* Where the client cuts a greeting sent as two TCP segments (hel | lo).
FragAt == 3
\* How many times the answer function is iterated in SpecAnswer.
MaxIter == 32
\* How many outcomes of the random number generator the shuffle is followed on.
ShuffleSeeds == 2
\* By how many bytes the client's long messages exceed what one read takes.
Overrun == 6

(***************************************************************************)
(* Program constants.                                                      *)
(***************************************************************************)
\* main.rs:31-35
WORDS ==
  << <<"s","k","y">>, <<"l","i","c","h","e","n">>, <<"w","i","n","d","o","w">>, <<"r","o","a","d">>,
     <<"w","a","l","l">>, <<"h","i","l","l">>, <<"s","a","n","d">>, <<"s","o","i","l">>,
     <<"l","o","a","m">>, <<"s","u","n">>, <<"s","t","a","r">>, <<"r","o","o","t">>,
     <<"r","a","i","n">>, <<"h","a","n","d">>, <<"g","r","e","e","n">>, <<"b","l","u","e">>,
     <<"r","e","d">>, <<"s","t","e","a","m">>, <<"s","t","e","e","l">>, <<"l","e","a","f">>,
     <<"h","o","u","s","e">>, <<"b","r","u","s","h">>, <<"s","t","a","i","r">>, <<"f","l","o","w","e","r">>,
     <<"l","o","g">>, <<"v","a","s","e">>, <<"p","a","i","n","t","i","n","g">>, <<"c","o","t","t","a","g","e">>,
     <<"f","r","o","g">>, <<"s","t","o","n","e">>, <<"p","o","n","d">>, <<"r","i","v","e","r">> >>

\* main.rs:120, the `> 5` of took_too_long (whole seconds)
TIMEOUT_SECS == 5
\* main.rs:166, `for i in 0..4`
ROUNDS == 4
\* main.rs:172-173, `i * 8` and `(i + 1) * 8`
ROUND_WORDS == 8
\* main.rs:132, `(index + 3)`
SHIFT == 3
\* main.rs:48-63: the most one try_read_buf puts into the cleared Vec, which
\* grows by 64 bytes when it is asked for room
READ_CHUNK == 64

SP == " "
NL == "\n"
\* main.rs:152, 161: the prefixes the greeting and the readiness are tested for
HELLO == <<"h","e","l","l","o">>
OK == <<"o","k">>
\* main.rs:153, 155, 162, 168, 190: the server's fixed lines
MSG_HELLO == <<"h","e","l","l","o","!"," ","l","e","t","'","s"," ","p","l","a","y"," ","a"," ","g","a","m","e"," ",":","3","\n">>
MSG_BAD_GREETING == <<"t","h","a","t","'","s"," ","n","o","t"," ","a"," ","n","i","c","e"," ","g","r","e","e","t","i","n","g",".",".",".","\n">>
MSG_LATER == <<"o","k","a","y",","," ","w","e"," ","c","a","n"," ","p","l","a","y"," ","l","a","t","e","r"," ","t","h","e","n",".",".",".">>
MSG_TOO_LONG == <<"y","o","u"," ","t","o","o","k"," ","t","o","o"," ","l","o","n","g","!">>
MSG_WRONG == <<"y","o","u"," ","s","a","i","d"," ","t","h","e"," ","w","r","o","n","g"," ","w","o","r","d","!","\n">>
\* main.rs:198: format!("good job! the flag is {flag}\n"); the flag is the
\* value given on the command line (main.rs:207-210), here flag{win}
WIN_PREFIX == <<"g","o","o","d"," ","j","o","b","!"," ","t","h","e"," ","f","l","a","g"," ","i","s"," ">>
FLAG == <<"f","l","a","g","{","w","i","n","}">>
win_message == WIN_PREFIX \o FLAG \o <<NL>>

\* What the client may type besides the right thing.
HI == <<"h","i","\n">>
NO == <<"n","o">>
BANANA == <<"b","a","n","a","n","a">>
EXTRA == <<"e","x","t","r","a">>

(***************************************************************************)
(* Pure functions of the program.                                          *)
(***************************************************************************)
Min(a, b) == IF a <= b THEN a ELSE b

\* <[u8]>::starts_with (main.rs:152, 161)
starts_with(b, prefix) ==
  /\ Len(b) >= Len(prefix)
  /\ SubSeq(b, 1, Len(prefix)) = prefix

\* <[&str]>::join (main.rs:175): the words with sep between neighbours
join(ws, sep) ==
  LET upto[n \in 0..Len(ws)] ==
        IF n = 0 THEN << >>
        ELSE IF n = 1 THEN ws[1]
        ELSE upto[n - 1] \o <<sep>> \o ws[n]
  IN  upto[Len(ws)]

\* str::split(' ') (main.rs:183): the pieces between occurrences of sep, the
\* j-th piece lying between the (j-1)-th and the j-th occurrence; a string
\* without sep is one piece, and a piece may be empty
split(s, sep) ==
  LET seps == {k \in 1..Len(s) : s[k] = sep}
      n == Cardinality(seps)
      at(j) == IF j = 0 THEN 0
               ELSE IF j = n + 1 THEN Len(s) + 1
               ELSE CHOOSE p \in seps : Cardinality({q \in seps : q < p}) = j - 1
  IN  [j \in 1..(n + 1) |-> SubSeq(s, at(j - 1) + 1, at(j) - 1)]

\* A plausible slip: the search stops one entry short of the end of WORDS.
index_of_stops_short(word) ==
  IF \E k \in 1..(Len(WORDS) - 1) : WORDS[k] = word
  THEN (CHOOSE k \in 1..(Len(WORDS) - 1) :
          /\ WORDS[k] = word
          /\ \A h \in 1..(k - 1) : WORDS[h] # word) - 1
  ELSE -1

\* WORDS.iter().enumerate().find(|(_, w)| word == **w) (main.rs:126-130):
\* the 0-based position of the first entry equal to word, -1 for None
index_of(word) ==
  IF \E k \in 1..Len(WORDS) : WORDS[k] = word
  THEN (CHOOSE k \in 1..Len(WORDS) :
          /\ WORDS[k] = word
          /\ \A h \in 1..(k - 1) : WORDS[h] # word) - 1
  ELSE -1

\* The value standing for the panic of .expect(..) (main.rs:131)
PANIC == <<"couldn't find word in word vec">>

\* A plausible slip: +2 written for +3.
correct_response_shift2(word) ==
  IF index_of(word) < 0 THEN PANIC
  ELSE WORDS[((index_of(word) + 2) % Len(WORDS)) + 1]

\* correct_response (main.rs:123-134)
correct_response(word) ==
  IF index_of(word) < 0 THEN PANIC
  ELSE WORDS[((index_of(word) + SHIFT) % Len(WORDS)) + 1]

\* A plausible slip: `>= 5` for `> 5`.
took_too_long_ge(start, clock) ==
  (IF clock >= start THEN clock - start ELSE 0) \div TicksPerSec >= TIMEOUT_SECS

\* took_too_long (main.rs:115-121): elapsed() is Err when the clock is behind
\* start_time, which unwrap_or turns into zero; as_secs() drops the fraction
took_too_long(start, clock) ==
  (IF clock >= start THEN clock - start ELSE 0) \div TicksPerSec > TIMEOUT_SECS

\* A plausible slip: the slice of round i starts at i * 7.
round_keywords_overlap(kw, r) == SubSeq(kw, r * (ROUND_WORDS - 1) + 1, r * (ROUND_WORDS - 1) + ROUND_WORDS)

\* &keywords[start..end] with start = i * 8, end = (i + 1) * 8 (main.rs:172-174)
round_keywords(kw, r) == SubSeq(kw, r * ROUND_WORDS + 1, (r + 1) * ROUND_WORDS)

\* The prompt of round r (main.rs:175-176): the slice joined by one space, then \n
prompt(kw, r) == join(round_keywords(kw, r), SP) \o <<NL>>

\* correct_responses (main.rs:185)
correct_responses(kw, r) ==
  [k \in 1..ROUND_WORDS |-> correct_response(round_keywords(kw, r)[k])]

\* A plausible slip: every token of the reply is looked at, so a ninth
\* token has nothing to match and counts as a mismatch.
mismatch_all_tokens(kw, r, reply) ==
  LET theirs == split(reply, SP)
      ours   == correct_responses(kw, r)
  IN  \E k \in 1..Len(theirs) : k > ROUND_WORDS \/ ours[k] # theirs[k]

\* A plausible slip: the comparison starts at the second pair.
mismatch_skips_first(kw, r, reply) ==
  LET theirs == split(reply, SP)
      ours   == correct_responses(kw, r)
  IN  \E k \in 2..Min(ROUND_WORDS, Len(theirs)) : ours[k] # theirs[k]

\* The comparison loop (main.rs:187-193): zip stops at the shorter of the eight
\* expected words and the pieces of the reply; TRUE when a compared pair differs
mismatch(kw, r, reply) ==
  LET theirs == split(reply, SP)
      ours   == correct_responses(kw, r)
  IN  \E k \in 1..Min(ROUND_WORDS, Len(theirs)) : ours[k] # theirs[k]

\* How many times correct_response is called in the comparison loop: the map
\* of main.rs:185 is lazy and zip asks it for a word before it asks the reply
\* for a token, so that is once per compared pair up to and including the
\* first pair that differs, and once more when the reply runs out first
lookups(kw, r, reply) ==
  LET theirs == split(reply, SP)
      ours   == correct_responses(kw, r)
      bad    == {k \in 1..Min(ROUND_WORDS, Len(theirs)) : ours[k] # theirs[k]}
  IN  IF bad # {} THEN CHOOSE k \in bad : \A h \in bad : k <= h
      ELSE Min(ROUND_WORDS, Len(theirs) + 1)

\* The keywords it is called on
invoked(kw, r, reply) == SubSeq(round_keywords(kw, r), 1, lookups(kw, r, reply))

\* .expect(..) panics in one of these calls (main.rs:131)
panics(kw, r, reply) ==
  \E k \in 1..ROUND_WORDS :
    /\ correct_response(round_keywords(kw, r)[k]) = PANIC
    /\ k <= lookups(kw, r, reply)

(***************************************************************************)
(* State of one session (handle_connection, main.rs:136-201) and of the    *)
(* client at the other end of its socket.                                  *)
(***************************************************************************)
VARIABLES
  pc,          \* where handle_connection is suspended (see the actions)
  i,           \* the loop variable of `for i in 0..4`
  keywords,    \* the shuffled copy of WORDS (main.rs:145-146)
  start_time,  \* SystemTime::now() at the start of the session (main.rs:144)
  buf,         \* the receive buffer (main.rs:148)
  result,      \* "running", or what handle_connection returned: "ok" / "err"
  now,         \* the clock, in ticks
  rx,          \* bytes that reached the server's socket and are not yet read
  closed,      \* the client closed its end
  pending,     \* second segment of a message the client sends in two segments
  sent,        \* the messages write_message wrote in full, in order
  reads,       \* the buffers read_message returned, in order
  csent,       \* the segments the client sent, in order
  late,        \* some round was entered more than TIMEOUT_SECS after start_time
  error,       \* the kind of the io::Error the session ended with, or "none"
  touched,     \* the connections the server read bytes from or wrote bytes to
  aw, an, acur, \* SpecAnswer: a word, a count, correct_response applied an times to aw
  main_pc,     \* where main's loop is: "accept" or "handle" ("exit": it ended)
  cur,         \* the connection handle_connection runs on (0 before the first)
  socks,       \* per connection: "none", "waiting", "running", "shut", "dropped"
  last_log,    \* the last line main printed
  wbuf, position, tries, \* SpecWrite: write_message's buf, position and tries
  wout,        \* SpecWrite: the bytes try_write took, in order
  wstate,      \* SpecWrite: "loop", or what write_message returned: "ok" / "err"
  wlast,       \* SpecWrite: what the last attempt of the loop met
  hard_run     \* SpecWrite: the attempts so far if each failed hard, else -1

session_vars == <<pc, i, keywords, start_time, buf, result, now, rx, closed,
                  pending, sent, reads, csent, late>>
answer_vars == <<aw, an, acur>>
main_vars == <<main_pc, cur, socks, last_log>>
write_vars == <<wbuf, position, tries, wout, wstate, wlast, hard_run>>
rest_vars == <<answer_vars, main_vars, write_vars>>
vars == <<session_vars, error, touched, answer_vars, main_vars, write_vars>>

\* Maximum tries to perform IO on the socket (main.rs:38)
MAX_TRIES == 100

\* The failed attempts of one write_message that are followed
MaxAttempts == 104

\* keywords.shuffle(&mut rng) (main.rs:145-146) walks i from the last index
\* down to 1 and swaps entry i with entry j, j drawn from 0..i by the random
\* number generator. BaseDraws[i] is the j of step i in one run of the
\* program (the one whose first prompt was `lichen blue river log window
\* root frog red`).
BaseDraws ==
  <<0, 2, 0, 2, 4, 3, 5, 4, 3, 0, 8, 9, 7, 14, 6, 5, 0, 17, 6, 6, 21, 8, 17,
    10, 22, 9, 13, 12, 20, 21, 27>>

\* The draws of outcome s of the generator: the digits of s, written with
\* one digit in 0..i for each step i (the digit of the first step, i = 31,
\* lowest), added to BaseDraws step by step. Outcome 0 is the run above; as s
\* grows every sequence of draws comes up once.
draws(s) ==
  LET q[st \in 1..(Len(WORDS) - 1)] ==
        IF st = Len(WORDS) - 1 THEN s ELSE q[st + 1] \div (st + 2)
  IN  [st \in 1..(Len(WORDS) - 1) |->
         (BaseDraws[st] + (q[st] % (st + 1))) % (st + 1)]

\* The array after the swaps of steps 31 down to 1 with draws d
shuffle(d) ==
  LET after[n \in 0..(Len(WORDS) - 1)] ==
        IF n = 0 THEN WORDS
        ELSE LET a  == after[n - 1]
                 st == Len(WORDS) - n
             IN  [a EXCEPT ![st + 1] = a[d[st] + 1], ![d[st] + 1] = a[st + 1]]
  IN  after[Len(WORDS) - 1]

\* The orders keywords is followed in after the shuffle
Shuffles == {shuffle(draws(s)) : s \in 0..(ShuffleSeeds - 1)}

ReadPcs == {"read_hello", "read_ok", "read_reply"}
WritePcs == {"write_hello", "write_bad_greeting", "write_later", "write_too_long",
             "write_prompt", "write_wrong", "write_flag"}

\* The buffer handed to write_message at each call site
write_buf(p, kw, r) ==
  CASE p = "write_hello"        -> MSG_HELLO          \* main.rs:153
    [] p = "write_bad_greeting" -> MSG_BAD_GREETING   \* main.rs:155
    [] p = "write_later"        -> MSG_LATER          \* main.rs:162
    [] p = "write_too_long"     -> MSG_TOO_LONG       \* main.rs:168
    [] p = "write_prompt"       -> prompt(kw, r)      \* main.rs:178
    [] p = "write_wrong"        -> MSG_WRONG          \* main.rs:190
    [] p = "write_flag"         -> win_message        \* main.rs:199

\* A plausible slip: the `return Ok(())` after the timeout line (main.rs:169)
\* is missing, so the loop body goes on to the prompt.
after_write_timeout_falls_through(p) ==
  CASE p = "write_hello"    -> "read_ok"
    [] p = "write_prompt"   -> "read_reply"
    [] p = "write_too_long" -> "write_prompt"
    [] OTHER                -> "done"

\* A plausible slip: the `return Ok(())` after the bad-greeting line
\* (main.rs:156) is missing, so the session goes on to the readiness read.
after_write_greeting_falls_through(p) ==
  CASE p = "write_hello"        -> "read_ok"
    [] p = "write_bad_greeting" -> "read_ok"
    [] p = "write_prompt"       -> "read_reply"
    [] OTHER                    -> "done"

\* A plausible slip: the read of the readiness line (main.rs:159) is missing,
\* so the first prompt follows the greeting reply at once.
after_write_skips_ready(p) ==
  CASE p = "write_hello"  -> "write_prompt"
    [] p = "write_prompt" -> "read_reply"
    [] OTHER              -> "done"

\* Where handle_connection goes once write_message returned Ok: on to the next
\* read (main.rs:159, 179) or `return Ok(())` (main.rs:156, 163, 169, 191, 200)
after_write(p) ==
  CASE p = "write_hello"  -> "read_ok"
    [] p = "write_prompt" -> "read_reply"
    [] OTHER              -> "done"

\* Top of the loop body for round r (main.rs:167-178): the timeout line or the prompt
round_entry(start, clock) ==
  IF took_too_long(start, clock) THEN "write_too_long" ELSE "write_prompt"

\* Elapsed time is above TIMEOUT_SECS seconds, fractions included
Over5s(start, clock) == clock - start > TIMEOUT_SECS * TicksPerSec

\* The connections main is let to see, in the order they arrive
ConnIds == {1, 2}

\* One session under way on connection 1: main sits in handle_connection
OneSession ==
  /\ main_pc = "handle"
  /\ cur = 1
  /\ socks = [c \in ConnIds |-> IF c = 1 THEN "running" ELSE "none"]
  /\ last_log = "received connection"
  /\ touched = {}

\* No write_message under inspection
WriteIdle ==
  /\ wbuf = << >> /\ position = 0 /\ tries = 0 /\ wout = << >>
  /\ wstate = "idle" /\ wlast = "none" /\ hard_run = 0

\* handle_connection entered (main.rs:136-148), nothing sent by the client yet
SessionStart ==
  /\ pc = "read_hello"
  /\ i = 0
  /\ keywords \in Shuffles
  /\ buf = << >>
  /\ result = "running"
  /\ error = "none"
  /\ rx = << >>
  /\ closed = FALSE
  /\ pending = << >>
  /\ sent = << >>
  /\ reads = << >>
  /\ csent = << >>
  /\ late = FALSE

Init ==
  /\ SessionStart
  /\ now = 0
  /\ start_time = 0
  /\ OneSession
  /\ WriteIdle
  /\ aw = WORDS[1] /\ an = 0 /\ acur = WORDS[1]

(***************************************************************************)
(* The server: handle_connection, one action per stretch of code between   *)
(* two suspension points (the awaits on read_message and write_message).   *)
(***************************************************************************)
\* What one try_read_buf takes of the bytes b the socket holds, and what stays
taken(b) == SubSeq(b, 1, Min(Len(b), READ_CHUNK))
left(b) == SubSeq(b, Min(Len(b), READ_CHUNK) + 1, Len(b))

\* read_message returned Ok (main.rs:48-65): buf is cleared, then one
\* try_read_buf moves the bytes the socket holds at that moment into it, at
\* most READ_CHUNK of them; the rest stays in the socket for the next read
Received ==
  /\ rx # << >>
  /\ buf' = taken(rx)
  /\ rx' = left(rx)
  /\ reads' = Append(reads, taken(rx))
  /\ touched' = touched \cup {cur}

\* main.rs:149-157: the greeting is read and tested for the prefix hello
ReadGreeting ==
  /\ pc = "read_hello"
  /\ Received
  /\ pc' = IF starts_with(taken(rx), HELLO) THEN "write_hello" ELSE "write_bad_greeting"
  /\ UNCHANGED <<i, keywords, start_time, result, now, closed, pending, sent,
                 csent, late, error, rest_vars>>

\* main.rs:159-178: the readiness is read and tested for the prefix ok; an
\* accepted one enters round 0, where the timeout is evaluated
ReadReady ==
  /\ pc = "read_ok"
  /\ Received
  /\ IF ~starts_with(taken(rx), OK)
     THEN /\ pc' = "write_later"
          /\ UNCHANGED <<i, late>>
     ELSE /\ i' = 0
          /\ pc' = round_entry(start_time, now)
          /\ late' = (late \/ Over5s(start_time, now))
  /\ UNCHANGED <<keywords, start_time, result, now, closed, pending, sent,
                 csent, error, rest_vars>>

\* main.rs:179-199: the reply of round i is read and compared; a mismatch is
\* rejected, otherwise the loop goes on to round i + 1 (timeout evaluated on
\* entry) or, after the last round, to the win message
\* (a panic in correct_response unwinds through handle_connection and main)
ReadReply ==
  /\ pc = "read_reply"
  /\ Received
  /\ IF panics(keywords, i, taken(rx))
     THEN /\ pc' = "panicked"
          /\ UNCHANGED <<i, late>>
     ELSE IF mismatch(keywords, i, taken(rx))
     THEN /\ pc' = "write_wrong"
          /\ UNCHANGED <<i, late>>
     ELSE /\ i' = i + 1
          /\ IF i + 1 < ROUNDS
             THEN /\ pc' = round_entry(start_time, now)
                  /\ late' = (late \/ Over5s(start_time, now))
             ELSE /\ pc' = "write_flag"
                  /\ UNCHANGED late
  /\ UNCHANGED <<keywords, start_time, result, now, closed, pending, sent,
                 csent, error, rest_vars>>

\* write_message returned Ok (main.rs:86-100): the whole buffer was written.
\* Where a read follows (main.rs:159, 179), read_message is entered at once
\* and clears buf (main.rs:49) before it waits for the socket
WriteOk ==
  /\ pc \in WritePcs
  /\ sent' = Append(sent, write_buf(pc, keywords, i))
  /\ touched' = touched \cup {cur}
  /\ pc' = after_write(pc)
  /\ result' = IF after_write(pc) = "done" THEN "ok" ELSE result
  /\ buf' = IF after_write(pc) \in ReadPcs THEN << >> ELSE buf
  /\ UNCHANGED <<i, keywords, start_time, now, rx, closed, pending, reads,
                 csent, late, error, rest_vars>>

\* write_message returned Err (main.rs:104-108), the error try_write gave
\* last: broken pipe when the peer has reset the connection, or another
\* kind; `?` ends the session
WriteErr ==
  /\ pc \in WritePcs
  /\ pc' = "done"
  /\ result' = "err"
  /\ error' \in {"BrokenPipe", "Other"}
  /\ UNCHANGED <<i, keywords, start_time, buf, now, rx, closed, pending, sent,
                 reads, csent, late, touched, rest_vars>>

\* A plausible slip: the arm `Ok(n) if n == 0` (main.rs:64) is missing, so a
\* read of zero bytes is an empty message, which no test accepts.
ReadClosedAsEmptyMessage ==
  /\ pc \in ReadPcs
  /\ rx = << >>
  /\ closed
  /\ buf' = << >>
  /\ reads' = Append(reads, << >>)
  /\ pc' = CASE pc = "read_hello" -> "write_bad_greeting"
             [] pc = "read_ok"    -> "write_later"
             [] pc = "read_reply" -> "write_wrong"
  /\ UNCHANGED <<i, keywords, start_time, result, now, rx, closed, pending, sent,
                 csent, late, error, touched, rest_vars>>

\* read_message returned Err: broken pipe on a read of zero bytes after the
\* peer closed (main.rs:64), the buffer cleared at entry (main.rs:49); `?`
\* ends the session
ReadClosed ==
  /\ pc \in ReadPcs
  /\ rx = << >>
  /\ closed
  /\ pc' = "done"
  /\ result' = "err"
  /\ error' = "BrokenPipe"
  /\ buf' = << >>
  /\ UNCHANGED <<i, keywords, start_time, now, rx, closed, pending, sent,
                 reads, csent, late, touched, rest_vars>>

\* read_message returned Err: a socket error that outlasted the retries
\* (main.rs:55-58, 67-72), the buffer cleared at entry (main.rs:49); `?` ends
\* the session
ReadErr ==
  /\ pc \in ReadPcs
  /\ pc' = "done"
  /\ result' = "err"
  /\ error' = "Other"
  /\ buf' = << >>
  /\ UNCHANGED <<i, keywords, start_time, now, rx, closed, pending, sent,
                 reads, csent, late, touched, rest_vars>>

Server == ReadGreeting \/ ReadReady \/ ReadReply \/ WriteOk \/ WriteErr
            \/ ReadClosed \/ ReadErr

(***************************************************************************)
(* The client and the clock.                                               *)
(***************************************************************************)
\* The answer function of the game as the players know it: three places on
\* in the published word list, wrapping around
answer(w) == WORDS[((index_of(w) + 3) % 32) + 1]

\* The right reply to the prompt of round r: the eight answers, in order
\* (worked out once for every order of the words and every round)
Orders == Shuffles \cup {WORDS}
AnswersOf ==
  [kw \in Orders |->
     [r \in 0..(ROUNDS - 1) |-> [k \in 1..8 |-> answer(kw[8 * r + k])]]]
answers(kw, r) == AnswersOf[kw][r]

\* The right reply as the client sends it: the answers joined by single spaces
FullOf ==
  [kw \in Orders |-> [r \in 0..(ROUNDS - 1) |-> join(answers(kw, r), SP)]]
full_reply(kw, r) == FullOf[kw][r]

\* m followed by a space if sp, then by the byte c up to n bytes in all
padded(m, sp, c, n) ==
  LET head == IF sp THEN m \o <<SP>> ELSE m
  IN  head \o [k \in 1..(n - Len(head)) |-> c]

\* What a client sends as greeting, as readiness and as reply of round r; each
\* is <<first segment, second segment>>, the second empty for a message sent whole
GreetingMenu ==
  { <<HELLO, << >>>>,
    <<HI, << >>>>,
    <<padded(HELLO, FALSE, "y", READ_CHUNK + Overrun), << >>>>,
    <<SubSeq(HELLO, 1, FragAt), SubSeq(HELLO, FragAt + 1, Len(HELLO))>> }

ReadyMenu == { <<OK, << >>>>, <<NO, << >>>> }

\* A message with its first letter in upper case
LowerCase == <<"a","b","c","d","e","f","g","h","i","j","k","l","m",
               "n","o","p","q","r","s","t","u","v","w","x","y","z">>
UpperCase == <<"A","B","C","D","E","F","G","H","I","J","K","L","M",
               "N","O","P","Q","R","S","T","U","V","W","X","Y","Z">>
Capital(m) ==
  [m EXCEPT ![1] = UpperCase[CHOOSE k \in 1..26 : LowerCase[k] = m[1]]]

ReplyMenu(kw, r) ==
  LET full == full_reply(kw, r)
  IN  { <<full, << >>>>,
        <<full \o <<NL>>, << >>>>,
        <<join(SubSeq(answers(kw, r), 1, ShortLen), SP), << >>>>,
        <<full \o <<SP>> \o EXTRA, << >>>>,
        <<join([answers(kw, r) EXCEPT ![SubstAt] = BANANA], SP), << >>>>,
        <<Capital(full), << >>>>,
        <<padded(full, TRUE, "x", READ_CHUNK + Overrun), << >>>> }

ReplyMenuOf ==
  [kw \in Orders |-> [r \in 0..(ROUNDS - 1) |-> ReplyMenu(kw, r)]]

\* The replies read so far that are not the eight right answers
Deviations ==
  Cardinality({r \in 0..(Len(reads) - 3) :
                 reads[r + 3] # full_reply(keywords, r)})

Menu ==
  CASE pc = "read_hello" -> GreetingMenu
    [] pc = "read_ok"    -> ReadyMenu
    [] pc = "read_reply" ->
         IF Deviations < MaxDeviations THEN ReplyMenuOf[keywords][i]
         ELSE { <<full_reply(keywords, i), << >>>> }
    [] OTHER             -> {}

\* The client answers the server's last line (first, it greets)
ClientSend ==
  /\ ~closed
  /\ pending = << >>
  /\ rx = << >>
  /\ \E m \in Menu :
       /\ rx' = m[1]
       /\ pending' = m[2]
       /\ csent' = Append(csent, m[1])
  /\ UNCHANGED <<pc, i, keywords, start_time, buf, result, now, closed, sent,
                 reads, late, error, touched, rest_vars>>

\* The second segment of a message sent in two arrives
ClientSendRest ==
  /\ ~closed
  /\ pending # << >>
  /\ rx' = rx \o pending
  /\ pending' = << >>
  /\ csent' = Append(csent, pending)
  /\ UNCHANGED <<pc, i, keywords, start_time, buf, result, now, closed, sent,
                 reads, late, error, touched, rest_vars>>

\* The client closes the connection instead of answering
ClientClose ==
  /\ ~closed
  /\ pending = << >>
  /\ rx = << >>
  /\ pc \in ReadPcs
  /\ closed' = TRUE
  /\ UNCHANGED <<pc, i, keywords, start_time, buf, result, now, rx, pending,
                 sent, reads, csent, late, error, touched, rest_vars>>

Client == ClientSend \/ ClientSendRest \/ ClientClose

\* The elapsed times the clock is watched at: the first tick, exactly
\* TIMEOUT_SECS seconds, one tick more, and the next whole second
ClockMarks ==
  {1, TIMEOUT_SECS * TicksPerSec, TIMEOUT_SECS * TicksPerSec + 1,
   (TIMEOUT_SECS + 1) * TicksPerSec}

\* Time passes while the session runs
Tick ==
  /\ result = "running"
  /\ \E t \in ClockMarks :
       /\ start_time + t > now
       /\ now' = start_time + t
  /\ UNCHANGED <<pc, i, keywords, start_time, buf, result, rx, closed, pending,
                 sent, reads, csent, late, error, touched, rest_vars>>

Next == Server \/ Client \/ Tick

Spec == Init /\ [][Next]_vars

\* The scheduling the runtime gives: a server that can take a step takes one
\* (sockets become ready), and a client that has something to send sends it
SpecFair == Spec /\ WF_vars(Server) /\ WF_vars(ClientSend \/ ClientSendRest)

(***************************************************************************)
(* The answer function on its own: a word of WORDS, and correct_response   *)
(* applied to it again and again.                                          *)
(***************************************************************************)
AnswerInit ==
  /\ SessionStart
  /\ now = 0
  /\ start_time = 0
  /\ OneSession
  /\ WriteIdle
  /\ aw \in {WORDS[k] : k \in 1..Len(WORDS)}
  /\ an = 0
  /\ acur = aw

ApplyAnswer ==
  /\ an < MaxIter
  /\ acur' = correct_response(acur)
  /\ an' = an + 1
  /\ UNCHANGED <<aw, session_vars, error, touched, main_vars, write_vars>>

SpecAnswer == AnswerInit /\ [][ApplyAnswer]_vars

(***************************************************************************)
(* The dispatcher: the accept loop of main (main.rs:219-236), which runs   *)
(* handle_connection on one connection at a time.                          *)
(***************************************************************************)
\* A plausible slip: the session is spawned as a task, so the loop is back at
\* listener.accept() while handle_connection still runs.
can_accept_while_handling(mpc) == mpc \in {"accept", "handle"}

\* listener.accept() is awaited only at the top of the loop (main.rs:220),
\* which main reaches again after the shutdown of the previous socket
can_accept(mpc) == mpc = "accept"

\* A plausible slip: `.await?` written for `.await.unwrap_or_else(..)`, so an
\* Err of the session leaves main.
after_session_propagates(res) == IF res = "err" THEN "exit" ELSE "accept"

\* Where main goes once handle_connection returned res: unwrap_or_else logs
\* an Err (main.rs:222-224), the socket is shut down, the loop goes round
after_session(res) == "accept"

\* What main prints last for each way `socket.into_std().map(|s|
\* s.shutdown(Both))` can end (main.rs:226-232): Ok(_) covers both results of
\* shutdown itself
shutdown_log(how) ==
  IF how = "dropped" THEN "failed to shut down connection"
  ELSE "successfully shut down connection"

\* No handle_connection has been entered
NoSession ==
  /\ pc = "idle"
  /\ i = 0
  /\ keywords = WORDS
  /\ now = 0
  /\ start_time = 0
  /\ buf = << >>
  /\ result = "none"
  /\ error = "none"
  /\ rx = << >>
  /\ closed = FALSE
  /\ pending = << >>
  /\ sent = << >>
  /\ reads = << >>
  /\ csent = << >>
  /\ late = FALSE

MainInit ==
  /\ NoSession
  /\ main_pc = "accept"
  /\ cur = 0
  /\ socks = [c \in ConnIds |-> "none"]
  /\ last_log = "starting server"
  /\ touched = {}
  /\ WriteIdle
  /\ aw = WORDS[1] /\ an = 0 /\ acur = WORDS[1]

\* A client connects: the connection waits in the listener's queue
Connect ==
  /\ \E c \in ConnIds :
       /\ socks[c] = "none"
       /\ \A d \in ConnIds : d < c => socks[d] # "none"
       /\ socks' = [socks EXCEPT ![c] = "waiting"]
  /\ UNCHANGED <<session_vars, error, touched, answer_vars, main_pc, cur,
                 last_log, write_vars>>

\* main.rs:220-222, 141-149: accept() yields the connection that waited
\* longest and handle_connection runs on it up to its first read
Accept ==
  /\ can_accept(main_pc)
  /\ \E c \in ConnIds :
       /\ socks[c] = "waiting"
       /\ \A d \in ConnIds : d < c => socks[d] # "waiting"
       /\ cur' = c
       /\ socks' = [socks EXCEPT ![c] = "running"]
  /\ main_pc' = "handle"
  /\ last_log' = "received connection"
  /\ pc' = "read_hello"
  /\ i' = 0
  /\ keywords' \in Shuffles
  /\ start_time' = now
  /\ buf' = << >>
  /\ result' = "running"
  /\ error' = "none"
  /\ rx' = << >>
  /\ closed' = FALSE
  /\ pending' = << >>
  /\ sent' = << >>
  /\ reads' = << >>
  /\ csent' = << >>
  /\ late' = FALSE
  /\ UNCHANGED <<now, touched, answer_vars, write_vars>>

\* main.rs:234: accept() failed; the error is printed and the loop goes round
AcceptErr ==
  /\ main_pc = "accept"
  /\ last_log' = "accept error"
  /\ UNCHANGED <<session_vars, error, touched, answer_vars, main_pc, cur, socks,
                 write_vars>>

\* main.rs:222-232: handle_connection returned; its Err, if any, is printed,
\* then the socket is turned into a std socket and shut down in both
\* directions ("shut"), unless into_std fails, and then the socket is only
\* dropped ("dropped"); the session's buffers and the record of its messages
\* go with handle_connection's frame
SessionReturned ==
  /\ main_pc = "handle"
  /\ pc = "done"
  /\ \E how \in {"shut", "dropped"} :
       /\ socks' = [socks EXCEPT ![cur] = how]
       /\ last_log' = shutdown_log(how)
  /\ main_pc' = after_session(result)
  /\ pc' = "idle"
  /\ i' = 0 /\ keywords' = WORDS /\ late' = FALSE /\ closed' = FALSE
  /\ buf' = << >> /\ rx' = << >> /\ pending' = << >>
  /\ sent' = << >> /\ reads' = << >> /\ csent' = << >>
  /\ UNCHANGED <<start_time, result, now, error, touched, answer_vars, cur,
                 write_vars>>

Dispatcher == Connect \/ Accept \/ AcceptErr \/ SessionReturned

MainNext == Dispatcher \/ Server \/ Client \/ Tick

SpecMain == MainInit /\ [][MainNext]_vars


(***************************************************************************)
(* write_message on its own (main.rs:86-113), one action per turn of its   *)
(* loop: what socket.writable() and socket.try_write() came back with.     *)
(***************************************************************************)
\* The buffers write_message is followed on: two of the lines of the game
WriteBufs == {MSG_HELLO, MSG_WRONG}

\* A plausible slip: the slice handed to try_write starts at the beginning
\* of the buffer every time.
write_slice_from_start(b, pos) == b

\* &buf[position..buf_len] (main.rs:96)
write_slice(b, pos) == SubSeq(b, pos + 1, Len(b))

\* One more failed attempt, for as long as no attempt did anything else
one_more_hard(h) == IF h >= 0 THEN h + 1 ELSE -1

WriteInit ==
  /\ NoSession
  /\ main_pc = "accept"
  /\ cur = 0
  /\ socks = [c \in ConnIds |-> "none"]
  /\ last_log = "starting server"
  /\ touched = {}
  /\ aw = WORDS[1] /\ an = 0 /\ acur = WORDS[1]
  /\ wbuf \in WriteBufs
  /\ position = 0
  /\ tries = 0
  /\ wout = << >>
  /\ wstate = "loop"
  /\ wlast = "none"
  /\ hard_run = 0

\* main.rs:91-94: socket.writable() returned Err; `continue`, nothing counted
WritableErr ==
  /\ wstate = "loop"
  /\ hard_run < MaxAttempts
  /\ wlast' = "writable_err"
  /\ hard_run' = one_more_hard(hard_run)
  /\ UNCHANGED <<session_vars, error, touched, answer_vars, main_vars, wbuf,
                 position, tries, wout, wstate>>

\* main.rs:96-102: try_write took n bytes of the slice; Ok(()) if that was
\* the rest of the buffer, else position moves on by n
TryWriteOk ==
  /\ wstate = "loop"
  /\ \E n \in 1..Len(write_slice(wbuf, position)) :
       /\ wout' = wout \o SubSeq(write_slice(wbuf, position), 1, n)
       /\ IF position + n = Len(wbuf)
          THEN wstate' = "ok" /\ UNCHANGED position
          ELSE position' = position + n /\ UNCHANGED wstate
  /\ wlast' = "wrote"
  /\ hard_run' = -1
  /\ UNCHANGED <<session_vars, error, touched, answer_vars, main_vars, wbuf, tries>>

\* main.rs:103: try_write returned WouldBlock; the loop goes round
WouldBlock ==
  /\ wstate = "loop"
  /\ wlast' = "would_block"
  /\ hard_run' = -1
  /\ UNCHANGED <<session_vars, error, touched, answer_vars, main_vars, wbuf,
                 position, tries, wout, wstate>>

\* main.rs:104-110: try_write returned another error; Err(e) once tries is
\* above MAX_TRIES, else one more try
TryWriteErr ==
  /\ wstate = "loop"
  /\ IF tries > MAX_TRIES
     THEN wstate' = "err" /\ UNCHANGED tries
     ELSE tries' = tries + 1 /\ UNCHANGED wstate
  /\ wlast' = "write_err"
  /\ hard_run' = one_more_hard(hard_run)
  /\ UNCHANGED <<session_vars, error, touched, answer_vars, main_vars, wbuf,
                 position, wout>>

WriteNext == WritableErr \/ TryWriteOk \/ WouldBlock \/ TryWriteErr

SpecWrite == WriteInit /\ [][WriteNext]_vars

(***************************************************************************)
(* Properties.                                                             *)
(***************************************************************************)
WordSet == {WORDS[k] : k \in 1..Len(WORDS)}
Last(s) == s[Len(s)]
Front(s) == SubSeq(s, 1, Len(s) - 1)

\* The win message was written
FlagSent == \E k \in 1..Len(sent) : sent[k] = win_message

\* The reply the server read in round r (the greeting and the readiness come first)
HasReply(r) == Len(reads) >= r + 3
Reply(r) == reads[r + 3]

\* Round r was accepted: the loop went past it
Accepted(r) == i > r

\* The reply holds eight tokens and the first eight are the answers, in order
EightCorrect(reply, kw, r) ==
  LET t == split(reply, SP)
  IN  /\ Len(t) >= 8
      /\ \A k \in 1..8 : t[k] = answers(kw, r)[k]

\* C1: a round is passed, and the flag sent, only on a reply that holds the
\* eight right tokens; a shorter reply never leads to the next round or the flag.
C1_EightTokensEachRound ==
  /\ \A r \in 0..3 : Accepted(r) => EightCorrect(Reply(r), keywords, r)
  /\ FlagSent => \A r \in 0..3 : Accepted(r)

\* C2: the flag is sent only if the elapsed time is at most 5 seconds at the
\* moment the fourth reply has been checked.
C2_FlagWithinFiveSeconds ==
  [][(pc = "read_reply" /\ pc' = "write_flag") => ~Over5s(start_time, now)]_vars

RejectionLines == {MSG_BAD_GREETING, MSG_LATER, MSG_TOO_LONG, MSG_WRONG}
RejectionSent == \E k \in 1..Len(sent) : sent[k] \in RejectionLines

\* C3: a session that sent a rejection line, or in which read_message or
\* write_message returned an error, never sends the flag; the flag message is
\* sent at most once and nothing is sent after it.
C3_NoFlagOnFailure ==
  /\ (RejectionSent \/ result = "err") => ~FlagSent
  /\ \A k \in 1..Len(sent) : sent[k] = win_message => k = Len(sent)
  /\ FlagSent => pc = "done" /\ result = "ok"

\* C3 witness: a session rejected in the last round, after three accepted ones.
C3_Witness == result = "ok" /\ i = 3 /\ Last(sent) = MSG_WRONG /\ Len(sent) = 6

\* C4: the eight right answers joined by single spaces and ended by one
\* newline are accepted.
C4_TrailingNewlineAccepted ==
  \A r \in 0..3 :
    (HasReply(r) /\ Reply(r) = full_reply(keywords, r) \o <<NL>>) => Accepted(r)

\* C5: a round entered more than 5 seconds after the start (5.5 s included)
\* gets the timeout line and no prompt.
C5_TimeoutAboveFiveSeconds ==
  [][(pc \in {"read_ok", "read_reply"} /\ Over5s(start_time, now))
       => pc' # "write_prompt"]_vars

\* Nothing so far departs from correct play: no I/O error, a greeting that
\* starts with hello, a readiness that starts with ok, every reply exactly the
\* eight answers joined by single spaces, every round entered within 5 seconds
CorrectPlay ==
  /\ result # "err"
  /\ ~late
  /\ Len(reads) >= 1 => starts_with(reads[1], HELLO)
  /\ Len(reads) >= 2 => starts_with(reads[2], OK)
  /\ \A r \in 0..3 : HasReply(r) => Reply(r) = full_reply(keywords, r)

\* C6: a session of correct play eventually sends the flag message.
C6_CorrectPlayWins == ([]CorrectPlay) => <>(FlagSent /\ Last(sent) = WIN_PREFIX \o FLAG \o <<NL>>)

\* C6 witness: the flag was sent at the end of a session of correct play.
C6_Witness == CorrectPlay /\ FlagSent /\ result = "ok" /\ Len(reads) = 6

BadGreeting == Len(reads) >= 1 /\ ~starts_with(reads[1], HELLO)
BadReady ==
  /\ Len(reads) >= 2
  /\ starts_with(reads[1], HELLO)
  /\ ~starts_with(reads[2], OK)

\* C7: after a first message that does not start with hello the server sends
\* the bad-greeting line and nothing else; after a hello and a second message
\* that does not start with ok it sends, after the hello reply, the play-later
\* line (which has no newline) and nothing else. Either way no prompt and no
\* flag is sent and no further message is read. (Nothing else: when
\* write_message fails the line itself is missing, and nothing replaces it.)
C7_GreetingAndReadinessRejected ==
  /\ BadGreeting =>
       /\ Len(reads) = 1
       /\ pc \in {"write_bad_greeting", "done"}
       /\ sent \in {<< >>, <<MSG_BAD_GREETING>>}
       /\ (pc = "done" /\ result = "ok") => sent = <<MSG_BAD_GREETING>>
  /\ BadReady =>
       /\ Len(reads) = 2
       /\ pc \in {"write_later", "done"}
       /\ sent \in {<<MSG_HELLO>>, <<MSG_HELLO, MSG_LATER>>}
       /\ (pc = "done" /\ result = "ok") =>
            sent = <<MSG_HELLO, MSG_LATER>> /\ Last(sent[2]) # NL

\* C7 witness: both rejections happen; this is the readiness one, delivered.
C7_Witness == BadReady /\ pc = "done" /\ result = "ok" /\ reads[2] = NO

\* The client sends its greeting as two segments, hel and then lo
FragmentedGreeting == Len(csent) >= 1 /\ csent[1] = SubSeq(HELLO, 1, FragAt)

\* C8: a greeting sent as hel, then lo, is accepted whenever the server reads.
C8_FragmentedGreetingAccepted ==
  FragmentedGreeting =>
    /\ Len(reads) >= 1 => starts_with(reads[1], HELLO)
    /\ pc # "write_bad_greeting"
    /\ ~(\E k \in 1..Len(sent) : sent[k] = MSG_BAD_GREETING)

IsFixedLine(m) ==
  m \in {MSG_HELLO, MSG_BAD_GREETING, MSG_LATER, MSG_TOO_LONG, MSG_WRONG, win_message}
IsPrompt(m) == ~IsFixedLine(m)
\* The prompts sent so far, in order
Prompts == SelectSeq(sent, IsPrompt)

RECURSIVE Concat(_)
Concat(ss) == IF Len(ss) = 0 THEN << >> ELSE ss[1] \o Concat(Tail(ss))

\* The multiset of the entries of a sequence
BagOf(s) ==
  [w \in {s[k] : k \in 1..Len(s)} |-> Cardinality({k \in 1..Len(s) : s[k] = w})]

\* The words a prompt carries: its bytes up to the newline, cut at the spaces
PromptWords(m) == split(Front(m), SP)

\* C9: keywords is a permutation of WORDS throughout; the k-th prompt sent
\* carries exactly the eight words keywords[8(k-1) .. 8k) in order, so prompts
\* go out in the order 0, 1, 2, 3, each at most once; prompt k is sent only
\* after the rounds before it were accepted; and once all four are sent the
\* multiset of prompted words is WORDS.
C9_PromptsPartitionVocabulary ==
  LET ps == Prompts
      n  == Len(ps)
  IN  /\ Len(keywords) = Len(WORDS)
      /\ \A k \in 1..Len(WORDS) : \E j \in 1..Len(keywords) : keywords[j] = WORDS[k]
      /\ n <= 4
      /\ \A k \in 1..n :
           /\ Last(ps[k]) = NL
           /\ PromptWords(ps[k]) = SubSeq(keywords, 8 * (k - 1) + 1, 8 * k)
      /\ \A r \in 0..(n - 2) : HasReply(r) /\ ~mismatch(keywords, r, Reply(r))
      /\ n = 4 =>
           BagOf(Concat([k \in 1..4 |-> PromptWords(ps[k])])) = BagOf(WORDS)

\* C9 witness: all four prompts were sent.
C9_Witness == Len(Prompts) = 4 /\ pc = "read_reply"

\* C10: correct_response(w) is the word 3 places after w in WORDS, wrapping at
\* 32, whatever the session's permutation; n applications move 3n places; it is
\* one-to-one on WORDS and maps WORDS into WORDS; 32 applications return w.
C10_AnswerLaw ==
  /\ acur = WORDS[((index_of(aw) + 3 * an) % 32) + 1]
  /\ correct_response(acur) = WORDS[((index_of(acur) + 3) % 32) + 1]
  /\ correct_response(acur) \in WordSet
  /\ \A v \in WordSet : v # acur => correct_response(v) # correct_response(acur)
  /\ an = 32 => acur = aw

\* C10 witness: the last word of the table, after 32 applications.
C10_Witness == an = 32 /\ aw = WORDS[32] /\ acur = aw

\* C11: within a session reads and writes alternate, starting with a read: the
\* server has read as many messages as it has written, or one more, it waits
\* for a message only when the two counts are equal and writes only when it has
\* read one more; the write between the readiness read and the next read is
\* the round-0 prompt.
C11_RequestResponseAlternation ==
  /\ Len(sent) <= Len(reads)
  /\ Len(reads) <= Len(sent) + 1
  /\ (pc \in ReadPcs => Len(reads) = Len(sent))
  /\ (pc \in WritePcs => Len(reads) = Len(sent) + 1)
  /\ (pc = "done" /\ result = "ok" => Len(reads) = Len(sent))
  /\ (Len(reads) >= 3 => sent[2] = prompt(keywords, 0))

\* a whole game: six reads and six writes, the last one the win message
C11_Witness ==
  /\ Len(reads) = ROUNDS + 2
  /\ Len(sent) = ROUNDS + 2
  /\ FlagSent

\* C12: whatever handle_connection returned, main goes on to the shutdown of
\* that connection's socket and from there back to accept(): a connection
\* stops being the running one only when its session has returned, and then
\* its socket has been shut down in both directions (or, had into_std failed,
\* closed by being dropped, which main reports); no step, an accept error
\* included, takes main out of its loop.
C12_DispatcherSurvivesEverySession ==
  [][/\ main_pc' \in {"accept", "handle"}
     /\ (main_pc = "handle" /\ main_pc' # "handle" =>
           /\ pc = "done"
           /\ result \in {"ok", "err"}
           /\ main_pc' = "accept"
           /\ socks'[cur] \in {"shut", "dropped"}
           /\ (socks'[cur] = "dropped" <=>
                 last_log' = "failed to shut down connection")
           /\ (socks'[cur] = "shut" <=>
                 last_log' = "successfully shut down connection"))
     /\ (main_pc = "handle" /\ pc = "done" => ENABLED SessionReturned)
     /\ \A c \in ConnIds :
          socks[c] = "running" /\ socks'[c] # "running" =>
            c = cur /\ main_pc = "handle" /\ pc = "done"
     /\ (main_pc = "accept" /\ last_log' = "accept error" => main_pc' = "accept")
    ]_vars

\* a session ended in an error, its socket was shut down, and main has since
\* met an accept error and still waits for the next connection
C12_Witness ==
  /\ main_pc = "accept"
  /\ cur = 1
  /\ socks[1] = "shut"
  /\ result = "err"
  /\ last_log = "accept error"

\* C13: a reply of eight or more space-separated tokens is accepted exactly
\* when its first eight tokens are, byte for byte, the eight answers; any
\* other such reply gets the wrong-word line and after it no prompt and no
\* flag, and the session ends. What follows the eighth token plays no part.
C13_FirstEightTokensDecide ==
  \A r \in 0..(ROUNDS - 1) :
    (HasReply(r) /\ Len(split(Reply(r), SP)) >= ROUND_WORDS) =>
      /\ Accepted(r) <=> EightCorrect(Reply(r), keywords, r)
      /\ ~Accepted(r) =>
           /\ pc \in {"write_wrong", "done"}
           /\ Len(sent) <= r + 3
           /\ (Len(sent) = r + 3 => Last(sent) = MSG_WRONG)
           /\ (pc = "done" /\ result = "ok" =>
                 Len(sent) = r + 3 /\ Last(sent) = MSG_WRONG)
           /\ ~FlagSent

\* a round was passed on a reply whose eight right tokens are followed by a
\* ninth, and the game was won
C13_Witness ==
  \E r \in 0..(ROUNDS - 1) :
    /\ HasReply(r)
    /\ Reply(r) = full_reply(keywords, r) \o <<SP>> \o EXTRA
    /\ Len(split(Reply(r), SP)) = ROUND_WORDS + 1
    /\ Accepted(r)
    /\ FlagSent

\* C14: when the peer has closed and nothing is left to read, the read ends
\* the session on the spot with an error (broken pipe, for the read of zero
\* bytes; a read ends in broken pipe in no other case), in the greeting, the
\* readiness and every round alike; the server
\* writes nothing from then on, and main shuts the socket down and goes back
\* to accept().
C14_PeerClosureEndsSessionSilently ==
  [][/\ (main_pc = "handle" /\ pc \in ReadPcs /\ closed /\ rx = << >> /\ pc' # pc =>
           /\ pc' = "done"
           /\ result' = "err"
           /\ error' \in {"BrokenPipe", "Other"}
           /\ sent' = sent)
     /\ (pc \in ReadPcs /\ error' = "BrokenPipe" /\ error # "BrokenPipe" =>
           /\ closed /\ rx = << >>
           /\ pc' = "done"
           /\ result' = "err"
           /\ sent' = sent
           /\ touched' = touched)
     /\ (error = "BrokenPipe" /\ main_pc = "handle" =>
           /\ pc = "done"
           /\ ENABLED SessionReturned
           /\ touched' = touched
           /\ (sent' = sent \/ main_pc' = "accept")
           /\ main_pc' \in {"handle", "accept"})
    ]_vars

\* a client played up to a round and then closed: the read of the reply
\* ended the session with broken pipe right after the prompt, which is the
\* last thing written, and main is about to shut the socket down
C14_Witness ==
  /\ error = "BrokenPipe"
  /\ result = "err"
  /\ pc = "done"
  /\ main_pc = "handle"
  /\ closed
  /\ Len(reads) = Len(sent)
  /\ Len(sent) >= 2
  /\ Last(sent) = prompt(keywords, i)

\* C15: write_message hands the buffer to the socket in order and without
\* repeats: while it loops, the bytes taken so far are the first `position`
\* bytes of the buffer; a partial write moves position on by what was taken
\* and the next slice starts there; position never goes back and never passes
\* the length of the buffer; a would-block leaves it alone; and at Ok(()) the
\* bytes taken are the whole buffer.
C15_WriteDrainsBufferInOrder ==
  [][/\ wbuf' = wbuf
     /\ position' >= position
     /\ position' <= Len(wbuf)
     /\ (wstate' = "loop" => wout' = SubSeq(wbuf, 1, position'))
     /\ (wstate' = "ok" => wout' = wbuf)
     /\ (wstate' = "err" => wout' = SubSeq(wbuf, 1, position') /\ wout' # wbuf)
     /\ (wlast' = "wrote" =>
           /\ Len(wout') > Len(wout)
           /\ wout' = wout \o SubSeq(wbuf, position + 1, Len(wout')))
     /\ (wlast' = "wrote" /\ wstate' = "loop" =>
           position' = position + (Len(wout') - Len(wout)))
     /\ (wlast' \in {"would_block", "writable_err", "write_err"} =>
           position' = position /\ wout' = wout)
    ]_vars

\* Ok(()) after a partial write and at least one failed try in between
C15_Witness ==
  /\ wstate = "ok"
  /\ wout = wbuf
  /\ position > 0
  /\ tries > 0

\* C16: write_message does not go on for ever when every attempt fails hard:
\* as long as each attempt so far failed, in the wait for writability or in
\* the write, and the loop still runs, there have been at most MAX_TRIES + 2
\* of them; it returns Err only once the tries are used up.
C16_WriteGivesUpUnderHardErrors ==
  /\ (wstate = "loop" /\ hard_run >= 0 => hard_run <= MAX_TRIES + 2)
  /\ (wstate = "err" => tries > MAX_TRIES)

\* Connections are handled one at a time, in the order they arrived
OneAtATime ==
  /\ Cardinality({c \in ConnIds : socks[c] = "running"}) <= 1
  /\ \A c \in ConnIds : socks[c] = "running" => c = cur /\ main_pc = "handle"
  /\ \A c \in touched :
       \A d \in ConnIds : d < c => socks[d] \in {"shut", "dropped"}
  /\ \A c \in ConnIds :
       socks[c] = "running" =>
         \A d \in ConnIds : d > c => socks[d] \in {"none", "waiting"} /\ d \notin touched

\* C17: at most one session runs at any time, and no byte is read from or
\* written to a connection before every earlier connection's session has
\* ended and its socket has been shut down; while the client of the running
\* session sends nothing and does not close, and its socket reports no error,
\* the session stays in its read and later connections stay in the queue.
C17_SessionsAreSerialized ==
  [][/\ OneAtATime
     /\ OneAtATime'
     /\ (main_pc = "handle" /\ pc \in ReadPcs /\ rx = << >>
           /\ rx' = << >> /\ ~closed' /\ error' = "none" =>
           /\ pc' = pc
           /\ main_pc' = "handle"
           /\ cur' = cur
           /\ touched' = touched
           /\ \A d \in ConnIds : d # cur /\ socks[d] = "waiting" => socks'[d] = "waiting")
    ]_vars

\* the first client has said nothing for six seconds; the second has
\* connected and waits, untouched
C17_Witness ==
  /\ main_pc = "handle"
  /\ cur = 1
  /\ pc = "read_hello"
  /\ csent = << >>
  /\ ~closed
  /\ now - start_time = (TIMEOUT_SECS + 1) * TicksPerSec
  /\ socks[2] = "waiting"
  /\ touched = {}

\* C18: no round is passed without a comparison: every message read holds at
\* least one byte and so splits into at least one token, and the first token
\* of the reply of every accepted round is the answer to the first word of
\* that round's prompt; a session in which the flag was sent passed all four
\* rounds that way.
C18_FirstTokenAlwaysCompared ==
  /\ \A k \in 1..Len(reads) : reads[k] # << >>
  /\ \A r \in 0..(ROUNDS - 1) :
       /\ HasReply(r) => Len(split(Reply(r), SP)) >= 1
       /\ Accepted(r) =>
            /\ HasReply(r)
            /\ split(Reply(r), SP)[1] = answer(keywords[ROUND_WORDS * r + 1])
  /\ FlagSent =>
       \A r \in 0..(ROUNDS - 1) :
         Accepted(r) /\ split(Reply(r), SP)[1] = answer(keywords[ROUND_WORDS * r + 1])

\* the flag was sent in a session where one round was passed on the shortest
\* reply the client sends
C18_Witness ==
  /\ FlagSent
  /\ \E r \in 0..(ROUNDS - 1) :
       /\ Reply(r) = join(SubSeq(answers(keywords, r), 1, ShortLen), SP)
       /\ Len(split(Reply(r), SP)) = ShortLen

\* C19: correct_response is only ever called on entries of the session's
\* permutation of the word list, whatever the client sent: the permutation
\* holds exactly the words of WORDS, every word the comparison loop looks up
\* is one of the eight of the current round, each lookup finds its word, and
\* the session never ends in the panic of the failed lookup.
C19_AnswerLookupNeverPanics ==
  /\ pc # "panicked"
  /\ {keywords[k] : k \in 1..Len(keywords)} = WordSet
  /\ \A r \in 0..(ROUNDS - 1) :
       HasReply(r) =>
         LET looked_up == invoked(keywords, r, Reply(r))
         IN  \A k \in 1..Len(looked_up) :
               /\ looked_up[k] = keywords[ROUND_WORDS * r + k]
               /\ looked_up[k] \in WordSet
               /\ index_of(looked_up[k]) >= 0
               /\ correct_response(looked_up[k]) # PANIC

\* a reply that is no word of the list was read in the last round, and the
\* lookups of that round were made: the session went on to the wrong-word line
C19_Witness ==
  /\ HasReply(ROUNDS - 1)
  /\ \E k \in 1..Len(split(Reply(ROUNDS - 1), SP)) :
       split(Reply(ROUNDS - 1), SP)[k] \notin WordSet
  /\ Len(invoked(keywords, ROUNDS - 1, Reply(ROUNDS - 1))) >= 1
  /\ pc = "write_wrong"

====
